---- MODULE Spec2Model ----
(***************************************************************************)
(* A model of seo-description-tool.py: the scoring function seo_score and  *)
(* the Streamlit page that calls it from the "Analyze SEO" button.         *)
(*                                                                         *)
(* A text is a sequence of one-character strings.  Numbers that Python     *)
(* holds as floats are exact rationals here, [num |-> n, den |-> d] with   *)
(* d > 0, so that thresholds (density >= 1, readability < 60) and the      *)
(* truncation of the total are exact.                                      *)
(***************************************************************************)
EXTENDS Integers, Sequences, FiniteSets, TLC

VARIABLES
    description,      \* value of the text_area widget
    target_keyword,   \* value of the text_input widget
    page,             \* what the current script run rendered below the button
    frame,            \* <<>> or <<locals of the last seo_score call of this run>>
    ret,              \* <<>> or <<the tuple that call returned>>
    memo              \* history: <<>> or <<one remembered earlier call>>

vars == <<description, target_keyword, page, frame, ret, memo>>

---------------------------------------------------------------------------
(* Characters *)

Capitals ==
    <<"A", "B", "C", "D", "E", "F", "G", "H", "I", "J", "K", "L", "M",
      "N", "O", "P", "Q", "R", "S", "T", "U", "V", "W", "X", "Y", "Z">>

Letters ==
    <<"a", "b", "c", "d", "e", "f", "g", "h", "i", "j", "k", "l", "m",
      "n", "o", "p", "q", "r", "s", "t", "u", "v", "w", "x", "y", "z">>

Digits == {"0", "1", "2", "3", "4", "5", "6", "7", "8", "9"}

Range(f) == {f[i] : i \in DOMAIN f}

CapitalSet == Range(Capitals)

ToLower == [c \in CapitalSet |-> Letters[CHOOSE i \in DOMAIN Capitals : Capitals[i] = c]]

\* str.lower() on one character; also the folding of re.IGNORECASE
lower(c) == IF c \in CapitalSet THEN ToLower[c] ELSE c

lowerSeq(s) == [i \in DOMAIN s |-> lower(s[i])]

\* the characters str.split() and str.strip() treat as whitespace
Whitespace == {" ", "\n", "\t"}

isspace(c) == c \in Whitespace

\* the regular expression class \w
WordChars == Range(Letters) \cup CapitalSet \cup Digits \cup {"_"}

isword(c) == c \in WordChars

---------------------------------------------------------------------------
(* Exact rationals standing for Python floats *)

Rat(n, d) == [num |-> n, den |-> d]

RatLess(a, b) == a.num * b.den < b.num * a.den

RatEq(a, b) == a.num * b.den = b.num * a.den

\* int(x) for x = n/d, d > 0: truncation toward zero
trunc(n, d) == IF n >= 0 THEN n \div d ELSE -((-n) \div d)

\* round(x, 2), in hundredths, ties to even
round2(x) ==
    LET q == x.num \div x.den
        r == x.num % x.den
        h == (r * 100) \div x.den
        t == (r * 100) % x.den
        up == 2 * t > x.den \/ (2 * t = x.den /\ h % 2 = 1)
    IN  q * 100 + h + (IF up THEN 1 ELSE 0)

-------------------------------------------------------------------------------------------------------------------------------------------------
(* str.split(), str.strip() *)

\* the last character of the word that starts at i
word_end(s, i) ==
    CHOOSE e \in i..Len(s) :
        /\ e = Len(s) \/ isspace(s[e + 1])
        /\ \A j \in i..(e - 1) : ~isspace(s[j + 1])

\* the words that start at the offsets lo..hi, in order (the scan is
\* halved to keep the evaluation shallow)
RECURSIVE split_from(_, _, _)
split_from(s, lo, hi) ==
    IF lo > hi THEN <<>>
    ELSE IF lo = hi
    THEN IF ~isspace(s[lo]) /\ (lo = 1 \/ isspace(s[lo - 1]))
         THEN <<SubSeq(s, lo, word_end(s, lo))>>
         ELSE <<>>
    ELSE LET mid == (lo + hi) \div 2
         IN  split_from(s, lo, mid) \o split_from(s, mid + 1, hi)

\* description.split(): the maximal runs of non-whitespace, in order
split(s) == split_from(s, 1, Len(s))

\* description.strip()
strip(s) ==
    IF \A i \in DOMAIN s : isspace(s[i]) THEN <<>>
    ELSE SubSeq(s,
           CHOOSE i \in DOMAIN s :
               ~isspace(s[i]) /\ \A j \in 1..(i - 1) : isspace(s[j]),
           CHOOSE i \in DOMAIN s :
               ~isspace(s[i]) /\ \A j \in (i + 1)..Len(s) : isspace(s[j]))

---------------------------------------------------------------------------
(* re.findall(r'\b{}\b'.format(re.escape(target_keyword)), description,    *)
(*            flags=re.IGNORECASE)                                         *)

\* \b at offset p (between s[p] and s[p+1]), 0 <= p <= Len(s)
boundary(s, p) ==
    (p > 0 /\ isword(s[p])) # (p < Len(s) /\ isword(s[p + 1]))

\* match_at without re.IGNORECASE
match_at_case_sensitive(s, kw, p) ==
    /\ p + Len(kw) <= Len(s)
    /\ boundary(s, p)
    /\ \A j \in DOMAIN kw : s[p + j] = kw[j]
    /\ boundary(s, p + Len(kw))

\* the escaped keyword, taken literally and case-insensitively, at offset p
match_at(s, kw, p) ==
    /\ p + Len(kw) <= Len(s)
    /\ boundary(s, p)
    /\ \A j \in DOMAIN kw : lower(s[p + j]) = lower(kw[j])
    /\ boundary(s, p + Len(kw))

\* findall scans left to right and its matches do not overlap: a match may
\* start at offset p only if p >= free, the end of the match before it; an
\* empty match (empty keyword) moves the scan one offset on.  The result is
\* the matches that start in lo..hi and the offset the scan is free from.
RECURSIVE findall_keyword(_, _, _, _, _)
findall_keyword(s, kw, lo, hi, free) ==
    IF lo = hi
    THEN IF lo >= free /\ match_at(s, kw, lo)
         THEN [found |-> <<lo>>,
               free |-> IF Len(kw) = 0 THEN lo + 1 ELSE lo + Len(kw)]
         ELSE [found |-> <<>>, free |-> free]
    ELSE LET mid == (lo + hi) \div 2
             left == findall_keyword(s, kw, lo, mid, free)
             right == findall_keyword(s, kw, mid + 1, hi, left.free)
         IN  [found |-> left.found \o right.found, free |-> right.free]

keyword_matches(description_, target_keyword_) ==
    findall_keyword(description_, target_keyword_, 0, Len(description_), 0).found

---------------------------------------------------------------------------
(* re.findall(r'<h[1-6]>.*?</h[1-6]>', description, flags=re.IGNORECASE)   *)

Levels == {"1", "2", "3", "4", "5", "6"}

is_open(s, i) ==
    /\ i + 3 <= Len(s)
    /\ s[i] = "<" /\ lower(s[i + 1]) = "h" /\ s[i + 2] \in Levels
    /\ s[i + 3] = ">"

is_close(s, j) ==
    /\ j + 4 <= Len(s)
    /\ s[j] = "<" /\ s[j + 1] = "/" /\ lower(s[j + 2]) = "h"
    /\ s[j + 3] \in Levels /\ s[j + 4] = ">"

\* .*? then the closing tag: the nearest closing tag at or after j, if it is
\* reached without crossing a newline ('.' does not match "\n"); 0 if none
lazy_close(s, j) ==
    LET reach(c) == \A k \in j..(c - 1) : s[k] # "\n" /\ ~is_close(s, k)
    IN  IF \E c \in j..Len(s) : is_close(s, c) /\ reach(c)
        THEN CHOOSE c \in j..Len(s) : is_close(s, c) /\ reach(c)
        ELSE 0

\* the matches that start in lo..hi, and the offset the scan is free from
RECURSIVE headings_from(_, _, _, _)
headings_from(s, lo, hi, free) ==
    IF lo > hi THEN [found |-> <<>>, free |-> free]
    ELSE IF lo = hi
    THEN LET j == IF lo >= free /\ is_open(s, lo)
                  THEN lazy_close(s, lo + 4) ELSE 0
         IN  IF j # 0
             THEN [found |-> <<SubSeq(s, lo, j + 4)>>, free |-> j + 5]
             ELSE [found |-> <<>>, free |-> free]
    ELSE LET mid == (lo + hi) \div 2
             left == headings_from(s, lo, mid, free)
             right == headings_from(s, mid + 1, hi, left.free)
         IN  [found |-> left.found \o right.found, free |-> right.free]

find_headings(description_) ==
    headings_from(description_, 1, Len(description_), 1).found

-----
(* textstat.flesch_reading_ease: the Flesch Reading Ease formula           *)
(*   206.835 - 1.015 * (words / sentences) - 84.6 * (syllables / words)    *)
(* in thousandths, over whitespace tokens, runs of terminal punctuation    *)
(* and vowel groups.  With no words both ratios are taken as 0.            *)

Vowels == {"a", "e", "i", "o", "u", "y"}

Terminals == {".", "!", "?"}

syllable_count(s) ==
    Cardinality({i \in DOMAIN s :
        /\ lower(s[i]) \in Vowels
        /\ (i = 1 \/ lower(s[i - 1]) \notin Vowels)})

sentence_count(s) ==
    LET ends == Cardinality({i \in DOMAIN s :
                    /\ s[i] \in Terminals
                    /\ (i = Len(s) \/ s[i + 1] \notin Terminals)})
    IN  IF ends = 0 THEN 1 ELSE ends

flesch_reading_ease(s) ==
    LET w == Len(split(s))
        n == sentence_count(s)
        y == syllable_count(s)
    IN  IF w = 0 THEN Rat(206835, 1000)
        ELSE Rat(206835 * n * w - 1015 * w * w - 84600 * y * n,
                 1000 * n * w)

---------------------------------------------------------------------------
(* seo_score, statement by statement *)

\* density = (keyword_count / word_count) * 100 if word_count else 0
keyword_density(keyword_count, word_count) ==
    IF word_count # 0 THEN Rat(keyword_count * 100, word_count)
    ELSE Rat(0, 1)

\* meta_score with the upper limit excluded
meta_score_limit_excluded(meta_length) ==
    IF meta_length < 50 THEN 0
    ELSE IF meta_length >= 160 THEN 50
    ELSE 100

meta_score(meta_length) ==
    IF meta_length < 50 THEN 0
    ELSE IF meta_length > 160 THEN 50
    ELSE 100

\* keyword_score with a strict threshold
keyword_score_strict(density) ==
    IF RatLess(Rat(1, 1), density) THEN 100 ELSE 50

keyword_score(density) ==
    IF ~RatLess(density, Rat(1, 1)) THEN 100 ELSE 50

heading_score(headings) == IF headings # <<>> THEN 100 ELSE 50

\* min(readability, 100)
capped(readability) ==
    IF RatLess(Rat(100, 1), readability) THEN Rat(100, 1) ELSE readability

\* seo_total_score with round() in place of int()
seo_total_score_rounded(meta, keyword, heading, readability) ==
    LET c == capped(readability)
        n == (meta * 3 + keyword * 3 + heading * 2) * c.den + 2 * c.num
    IN  (2 * n + 10 * c.den) \div (20 * c.den)

\* int(meta_score*0.3 + keyword_score*0.3 + heading_score*0.2
\*     + min(readability, 100)*0.2)
seo_total_score(meta, keyword, heading, readability) ==
    LET c == capped(readability)
    IN  trunc((meta * 3 + keyword * 3 + heading * 2) * c.den + 2 * c.num,
              10 * c.den)

Suggestion(msg, kw) == [msg |-> msg, keyword |-> kw]

IncreaseKeyword(kw) == Suggestion("Increase keyword '{}' usage (at least 1%).", kw)
TooShort == Suggestion("Meta description too short (<50 chars).", <<>>)
TooLong == Suggestion("Meta description too long (>160 chars).", <<>>)
AddHeadings == Suggestion("Add headings (H1-H6) for better SEO structure.", <<>>)
ImproveReadability ==
    Suggestion("Improve readability (aim for Flesch Reading Ease >= 60).", <<>>)

\* build_suggestions with the checks chained by elif
build_suggestions_elif(density, meta_length, headings, readability, kw) ==
    IF RatLess(density, Rat(1, 1)) THEN <<IncreaseKeyword(kw)>>
    ELSE IF meta_length < 50 THEN <<TooShort>>
    ELSE IF meta_length > 160 THEN <<TooLong>>
    ELSE IF headings = <<>> THEN <<AddHeadings>>
    ELSE IF RatLess(readability, Rat(60, 1)) THEN <<ImproveReadability>>
    ELSE <<>>

build_suggestions(density, meta_length, headings, readability, kw) ==
    (IF RatLess(density, Rat(1, 1)) THEN <<IncreaseKeyword(kw)>> ELSE <<>>)
    \o (IF meta_length < 50 THEN <<TooShort>> ELSE <<>>)
    \o (IF meta_length > 160 THEN <<TooLong>> ELSE <<>>)
    \o (IF headings = <<>> THEN <<AddHeadings>> ELSE <<>>)
    \o (IF RatLess(readability, Rat(60, 1)) THEN <<ImproveReadability>> ELSE <<>>)

\* score_color with green granted from 50
score_color_lenient(total) ==
    IF total >= 50 THEN "green"
    ELSE IF total >= 30 THEN "yellow"
    ELSE "red"

score_color(total) ==
    IF total >= 80 THEN "green"
    ELSE IF total >= 50 THEN "yellow"
    ELSE "red"

\* word_frequencies counting into a table that outlives the call: the counts
\* of the analysis still on the page are added
word_frequencies_accumulated(words) ==
    LET lw == [i \in DOMAIN words |-> lowerSeq(words[i])]
        old(w) == IF page.kind = "results" /\ w \in DOMAIN page.results[1].bars
                  THEN page.results[1].bars[w] ELSE 0
    IN  [w \in Range(lw) |->
            Cardinality({i \in DOMAIN lw : lw[i] = w}) + old(w)]

\* pd.Series([w.lower() for w in words]).value_counts(), as the mapping
\* case-folded word -> number of occurrences
word_frequencies(words) ==
    LET lw == [i \in DOMAIN words |-> lowerSeq(words[i])]
    IN  [w \in Range(lw) |-> Cardinality({i \in DOMAIN lw : lw[i] = w})]

\* the locals of seo_score at its return statement
seo_score(description_, target_keyword_) ==
    LET words == split(description_)
        word_count == Len(words)
        keyword_count == Len(keyword_matches(description_, target_keyword_))
        density == keyword_density(keyword_count, word_count)
        meta_length == Len(description_)
        meta == meta_score(meta_length)
        keyword == keyword_score(density)
        readability == flesch_reading_ease(description_)
        headings == find_headings(description_)
        heading == heading_score(headings)
        total == seo_total_score(meta, keyword, heading, readability)
    IN  [ words |-> words,
          word_count |-> word_count,
          keyword_count |-> keyword_count,
          density |-> density,
          meta_length |-> meta_length,
          meta_score |-> meta,
          keyword_score |-> keyword,
          readability |-> readability,
          headings |-> headings,
          heading_score |-> heading,
          seo_total_score |-> total,
          suggestions |-> build_suggestions(density, meta_length, headings,
                                            readability, target_keyword_),
          color |-> score_color(total),
          word_freq |-> word_frequencies(words) ]

\* return seo_total_score, density, meta_length, readability, suggestions,
\*        color, word_freq
returned(f) ==
    [ score |-> f.seo_total_score,
      density |-> f.density,
      length |-> f.meta_length,
      readability |-> f.readability,
      suggestions |-> f.suggestions,
      color |-> f.color,
      word_freq |-> f.word_freq ]

---------------------------------------------------------------------------
(* The page: what one run of the script renders below the button *)

Idle == [kind |-> "idle", warning |-> <<>>, results |-> <<>>]

Warning ==
    [kind |-> "warning",
     warning |-> <<"Please enter a description to analyze.">>,
     results |-> <<>>]

\* lines 81-164: the score line, the three metrics, the suggestions or the
\* success message, the three gauges and the word bar chart
Results(r, kw) ==
    [kind |-> "results",
     warning |-> <<>>,
     results |-> <<[ score |-> r.score,
                     color |-> r.color,
                     density |-> round2(r.density),
                     length |-> r.length,
                     readability |-> round2(r.readability),
                     suggestions |-> r.suggestions,
                     success |-> r.suggestions = <<>>,
                     gauges |-> <<r.density, r.length, r.readability>>,
                     bars |-> r.word_freq,
                     bar_colors |-> [w \in DOMAIN r.word_freq |->
                                       IF w = lowerSeq(kw) THEN "red"
                                       ELSE "blue"] ]>> ]

---------------------------------------------------------------------------
(* Inputs *)

\* st.text_input("Target Keyword", value="Power BI Developer")
DefaultKeyword ==
    <<"P", "o", "w", "e", "r", " ", "B", "I", " ",
      "D", "e", "v", "e", "l", "o", "p", "e", "r">>

ScenarioText ==
    <<"P", "o", "w", "e", "r", " ", "B", "I", " ", "D", "e", "v", "e", "l",
      "o", "p", "e", "r", " ", "b", "u", "i", "l", "d", "s", " ", "d", "a",
      "s", "h", "b", "o", "a", "r", "d", "s", ".", " ", "P", "o", "w", "e",
      "r", " ", "B", "I", " ", "D", "e", "v", "e", "l", "o", "p", "e", "r",
      " ", "l", "o", "v", "e", "s", " ", "d", "a", "t", "a", ".">>

HeadingText ==
    <<"<", "h", "1", ">", "P", "o", "w", "e", "r", " ", "B", "I", "<", "/",
      "h", "1", ">", " ", "b", "i", "g", " ", "d", "a", "t", "a", ".">>

MixedHeading == <<"<", "H", "2", ">", "b", "i", "<", "/", "h", "3", ">">>

BrokenHeading ==
    <<"<", "H", "2", ">", "b", "i", "\n", "<", "/", "h", "3", ">", " ",
      "B", "i">>

LongWord ==
    <<"S", "u", "p", "e", "r", "c", "a", "l", "i", "f", "r", "a", "g", "i",
      "l", "i", "s", "t", "i", "c", "e", "x", "p", "i", "a", "l", "i", "d",
      "o", "c", "i", "o", "u", "s">>

\* a family of texts: a stem followed by any number of copies of a filler
Families ==
    << [stem |-> <<>>,           filler |-> <<" ">>],
       [stem |-> <<"b", "i">>,   filler |-> <<" ", "a">>],
       [stem |-> <<"b", "i">>,   filler |-> <<"a", "b">>],
       [stem |-> HeadingText,    filler |-> <<" ", "a">>],
       [stem |-> ScenarioText,   filler |-> <<" ", "a">>],
       [stem |-> MixedHeading,   filler |-> <<" ", "a">>],
       [stem |-> BrokenHeading,  filler |-> <<" ", "a">>],
       [stem |-> LongWord,       filler |-> <<" ">>] >>

\* the largest number of filler copies
MaxReps == 101

Repeat(u, n) == [i \in 1..(n * Len(u)) |-> u[((i - 1) % Len(u)) + 1]]

Text(fam, n) == fam.stem \o Repeat(fam.filler, n)

Descriptions == {Text(Families[f], n) : f \in DOMAIN Families, n \in 0..MaxReps}

Keywords == {<<>>, <<"b", "i">>, <<"a">>, <<"a", " ", "a">>, DefaultKeyword}

\* the texts typed into the running page
TypedReps == {0, 12, MaxReps}

TypedDescriptions ==
    {Text(Families[f], n) : f \in DOMAIN Families, n \in TypedReps}

---------------------------------------------------------------------------
(* Operations *)

Aged(m) == IF m = <<>> THEN <<>> ELSE <<[m[1] EXCEPT !.fresh = FALSE]>>

Remember(r) ==
    <<[description |-> description, target_keyword |-> target_keyword,
       ret |-> r, fresh |-> TRUE]>>

\* the page as first loaded: empty text area, default keyword, nothing rendered
Init ==
    /\ description = <<>>
    /\ target_keyword = DefaultKeyword
    /\ page = Idle
    /\ frame = <<>>
    /\ ret = <<>>
    /\ memo = <<>>

\* editing a widget reruns the script with the button not pressed
EnterDescription ==
    /\ \E d \in TypedDescriptions : d # description /\ description' = d
    /\ page' = Idle /\ frame' = <<>> /\ ret' = <<>>
    /\ memo' = Aged(memo)
    /\ UNCHANGED target_keyword

EnterKeyword ==
    /\ \E k \in Keywords : k # target_keyword /\ target_keyword' = k
    /\ page' = Idle /\ frame' = <<>> /\ ret' = <<>>
    /\ memo' = Aged(memo)
    /\ UNCHANGED description

\* if st.button("Analyze SEO"): lines 75-164
ClickAnalyze ==
    /\ IF strip(description) = <<>>
       THEN /\ page' = Warning
            /\ frame' = <<>> /\ ret' = <<>>
            /\ memo' = Aged(memo)
       ELSE \E f \in {seo_score(description, target_keyword)} :
            \E r \in {returned(f)} :
                /\ frame' = <<f>>
                /\ ret' = <<r>>
                /\ page' = Results(r, target_keyword)
                /\ memo' \in {Aged(memo), Remember(r)}
    /\ UNCHANGED <<description, target_keyword>>

Next == EnterDescription \/ EnterKeyword \/ ClickAnalyze

Spec == Init /\ [][Next]_vars

---------------------------------------------------------------------------
(* The contract of the function and of the handler over a wide input set:  *)
(* the widgets hold any of the inputs; the button is pressed, or seo_score *)
(* is called with the same arguments without the handler's guard.          *)

InitInputs ==
    /\ description \in Descriptions
    /\ target_keyword \in Keywords
    /\ page = Idle
    /\ frame = <<>>
    /\ ret = <<>>
    /\ memo = <<>>

\* nothing rendered and nothing called yet
Fresh == page = Idle /\ ret = <<>>

\* the button is pressed on the freshly loaded inputs
AnalyzeInput == Fresh /\ ClickAnalyze

\* seo_score(description, target_keyword) called as a function
CallScore ==
    /\ Fresh
    /\ \E f \in {seo_score(description, target_keyword)} :
           frame' = <<f>> /\ ret' = <<returned(f)>>
    /\ UNCHANGED <<description, target_keyword, page, memo>>

NextInputs == AnalyzeInput \/ CallScore

SpecInputs == InitInputs /\ [][NextInputs]_vars

---------------------------------------------------------------------------
(* Properties *)

Called == ret # <<>>

IsBlank(s) == \A i \in DOMAIN s : isspace(s[i])

\* the number of maximal runs of non-whitespace characters
RunCount(s) ==
    Cardinality({i \in DOMAIN s :
        ~isspace(s[i]) /\ (i = 1 \/ isspace(s[i - 1]))})

\* offsets where kw occurs in s, compared case-insensitively
Occurrences(s, kw) ==
    {p \in 0..(Len(s) - Len(kw)) :
        \A j \in DOMAIN kw : lower(s[p + j]) = lower(kw[j])}

\* those of them that begin and end at a word boundary
BoundedOccurrences(s, kw) ==
    {p \in Occurrences(s, kw) : boundary(s, p) /\ boundary(s, p + Len(kw))}

\* found is the left-to-right choice of non-overlapping offsets from cand for
\* a keyword of length n: only candidates, in increasing order and disjoint,
\* and every candidate left out overlaps a chosen one that starts before it
LeftmostDisjoint(found, cand, n) ==
    /\ Range(found) \subseteq cand
    /\ \A i \in 1..(Len(found) - 1) :
          found[i + 1] >= found[i] + n /\ found[i + 1] > found[i]
    /\ \A p \in cand \ Range(found) :
          \E i \in DOMAIN found : found[i] < p /\ p < found[i] + n

\* some <h1-6> is followed by some </h1-6> with no newline between them
HasHeadingPair(s) ==
    \E i \in DOMAIN s : is_open(s, i) /\
        \E c \in (i + 4)..Len(s) :
            is_close(s, c) /\ \A k \in (i + 4)..(c - 1) : s[k] # "\n"

LengthScore(n) ==
    CASE n < 50 -> 0
      [] n >= 50 /\ n <= 160 -> 100
      [] n > 160 -> 50

\* z is n/d truncated toward zero (d > 0)
IsTruncation(z, n, d) ==
    IF n >= 0 THEN z * d <= n /\ n < (z + 1) * d
    ELSE (z - 1) * d < n /\ n <= z * d

\* the five suggestions in their fixed order, each under its own condition
ExpectedSuggestions(r, s, kw) ==
    LET all == << <<RatLess(r.density, Rat(1, 1)), IncreaseKeyword(kw)>>,
                  <<r.length < 50, TooShort>>,
                  <<r.length > 160, TooLong>>,
                  <<~HasHeadingPair(s), AddHeadings>>,
                  <<RatLess(r.readability, Rat(60, 1)), ImproveReadability>> >>
        due == SelectSeq(all, LAMBDA e : e[1])
    IN  [i \in DOMAIN due |-> due[i][2]]

\* C1: for every non-empty description and every keyword, the overall score
\* returned by seo_score is an integer in the closed range 0..100.
C1_ScoreInRange ==
    (Called /\ ~IsBlank(description)) => ret[1].score \in 0..100

\* C2: the returned density is never negative, and it is 0 whenever the
\* keyword is empty or does not occur in the description.
C2_DensityZeroWithoutKeyword ==
    Called =>
        /\ ret[1].density.num >= 0
        /\ (target_keyword = <<>> \/ Occurrences(description, target_keyword) = {})
              => ret[1].density.num = 0

\* C3 as stated: density is 100 * occurrences / wordCount, where occurrences
\* counts every case-insensitive occurrence of the keyword in the description
\* and wordCount the maximal non-whitespace runs; 0 when wordCount is 0
\* (stated here for the non-empty keywords).
C3_DensityOfSubstringCount ==
    (Called /\ target_keyword # <<>>) =>
        LET n == RunCount(description)
            k == Cardinality(Occurrences(description, target_keyword))
        IN  IF n = 0 THEN ret[1].density.num = 0
            ELSE RatEq(ret[1].density, Rat(100 * k, n))

\* C3 as amended: occurrences are counted left to right without overlap among
\* the case-insensitive occurrences that begin and end at a word boundary.
C3_DensityOfBoundedCount ==
    Called =>
        LET n == RunCount(description)
            found == keyword_matches(description, target_keyword)
        IN  /\ frame[1].word_count = n
            /\ frame[1].keyword_count = Len(found)
            /\ LeftmostDisjoint(found,
                  BoundedOccurrences(description, target_keyword),
                  Len(target_keyword))
            /\ IF n = 0 THEN ret[1].density.num = 0
               ELSE RatEq(ret[1].density, Rat(100 * Len(found), n))

\* the keyword twice in a ten-word text: density 20.0
C3_Witness ==
    /\ Called
    /\ description = ScenarioText /\ target_keyword = DefaultKeyword
    /\ frame[1].keyword_count = 2 /\ frame[1].word_count = 10
    /\ RatEq(ret[1].density, Rat(20, 1))

\* C4: the length sub-score is 0 below 50 characters, 100 from 50 to 160
\* characters inclusive, and 50 above 160.
C4_LengthScore ==
    Called =>
        /\ ret[1].length = Len(description)
        /\ frame[1].meta_score = LengthScore(Len(description))

C4_Witness ==
    Called /\ Len(description) = 160 /\ frame[1].meta_score = 100

\* C5: the keyword sub-score is 100 exactly when density >= 1 and 50
\* otherwise, and the keyword suggestion is emitted exactly when it is 50.
C5_KeywordScore ==
    Called =>
        /\ frame[1].keyword_score \in {50, 100}
        /\ frame[1].keyword_score = 100
              <=> ~RatLess(ret[1].density, Rat(1, 1))
        /\ IncreaseKeyword(target_keyword) \in Range(ret[1].suggestions)
              <=> frame[1].keyword_score = 50

\* a density of exactly 1.0 scores 100
C5_Witness ==
    /\ Called
    /\ RatEq(ret[1].density, Rat(1, 1))
    /\ frame[1].keyword_score = 100
    /\ IncreaseKeyword(target_keyword) \notin Range(ret[1].suggestions)

\* C6: the suggestion list holds each of the five suggestions exactly when
\* its own condition holds, in the fixed order; a description shorter than
\* 50 characters gets length sub-score 0 and the too-short suggestion.
C6_Suggestions ==
    Called =>
        /\ ret[1].suggestions =
              ExpectedSuggestions(ret[1], description, target_keyword)
        /\ Len(description) < 50 =>
              frame[1].meta_score = 0 /\ TooShort \in Range(ret[1].suggestions)

\* a 40-character description, with more than one suggestion due
C6_Witness ==
    /\ Called
    /\ Len(description) = 40
    /\ frame[1].meta_score = 0
    /\ TooShort \in Range(ret[1].suggestions)
    /\ Len(ret[1].suggestions) >= 3

\* C7: a description that is empty or all whitespace never produces a
\* result: the button shows the warning and renders nothing, and seo_score
\* itself returns no metrics for it; any other description is scored and
\* shown, never warned about.
C7_BlankNeverScored ==
    /\ IsBlank(description) => ret = <<>> /\ page.kind # "results"
    /\ ~IsBlank(description) =>
          /\ page.kind # "warning"
          /\ page.kind = "results" => Called

C9_WeightedTruncatedScore ==
    Called =>
        LET r == ret[1]
            len == LengthScore(r.length)
            key == IF RatLess(r.density, Rat(1, 1)) THEN 50 ELSE 100
            head == IF HasHeadingPair(description) THEN 100 ELSE 50
            over == RatLess(Rat(100, 1), r.readability)
            cnum == IF over THEN 100 ELSE r.readability.num
            cden == IF over THEN 1 ELSE r.readability.den
        IN  /\ frame[1].heading_score = head
            /\ r.readability = flesch_reading_ease(description)
            /\ IsTruncation(r.score,
                  (len * 3 + key * 3 + head * 2) * cden + 2 * cnum,
                  10 * cden)

\* readability above 100 is returned as it is and counted as 100
C9_Witness ==
    /\ Called
    /\ RatLess(Rat(100, 1), ret[1].readability)
    /\ ret[1].score = 100

\* C10: with no suggestion the score is at least 92 and green; a description
\* shorter than 50 characters scores at most 70 and is never green; green is
\* score >= 80, yellow score >= 50, red below; the success message is shown
\* exactly when there is no suggestion.
C10_AllClearIsGreen ==
    Called =>
        /\ ret[1].color = (IF ret[1].score >= 80 THEN "green"
                           ELSE IF ret[1].score >= 50 THEN "yellow"
                           ELSE "red")
        /\ ret[1].suggestions = <<>> =>
              ret[1].score >= 92 /\ ret[1].color = "green"
        /\ Len(description) < 50 =>
              ret[1].score <= 70 /\ ret[1].color # "green"
        /\ page.kind = "results" =>
              /\ page.results[1].success <=> ret[1].suggestions = <<>>
              /\ page.results[1].color = ret[1].color
              /\ page.results[1].score = ret[1].score

\* the success message on the page, next to a green score
C10_Witness ==
    /\ Called
    /\ page.kind = "results"
    /\ page.results[1].success
    /\ page.results[1].color = "green"

====
